---------------------------- MODULE Spec2Model ----------------------------
(***************************************************************************)
(* Pagination driver of the Aerodrome tag service (src/src/main.mts).      *)
(*                                                                         *)
(* One run of TagService.returnTags is modelled as a state machine whose   *)
(* steps are cut at the awaits of the code: Call runs from the entry to    *)
(* the first await (the fetch of page 1 is then outstanding), the remote   *)
(* source answers an outstanding request (Respond...), and Resume runs     *)
(* the continuation of the await up to the next await or to the end.       *)
(*                                                                         *)
(* Strings are sequences of one-character strings, so that the regular     *)
(* expression of the Validator, Number(), parseInt() and the template of   *)
(* the contract address are computed rather than assumed.                  *)
(*                                                                         *)
(* A ContractTag is modelled by its "Contract Address" field; the label    *)
(* fields (name tag, note, project, link) are functions of the pool and    *)
(* are read by no branch of the driver.                                    *)
(***************************************************************************)
EXTENDS Integers, Sequences, FiniteSets

\* ------------------------------------------------------------- bounds

\* Page size of the model.  The program asks for 1000 pools per page and
\* continues on a page of exactly 1000; the model keeps the comparison and
\* scales the number.
PAGE == 2

\* Pools the honest remote source may hold.
MaxStore == 4

\* Largest createdAtTimestamp of a pool held by the honest remote source.
MaxTs == 3

\* Full pages an arbitrary remote source may serve in one run.
MaxFullPages == 2

\* ------------------------------------------------------------- strings

Digits == <<"0", "1", "2", "3", "4", "5", "6", "7", "8", "9">>

HexDigits == Digits \o <<"a", "b", "c", "d", "e", "f">>

\* Position of character c in alphabet, 0 when absent.
IndexOf(c, alphabet) ==
    IF \E i \in 1..Len(alphabet) : alphabet[i] = c
    THEN CHOOSE i \in 1..Len(alphabet) : alphabet[i] = c
    ELSE 0

IsAllOf(s, alphabet) == \A i \in 1..Len(s) : IndexOf(s[i], alphabet) > 0

RECURSIVE ValueIn(_, _)
\* Value of the numeral s in the base Len(alphabet).
ValueIn(s, alphabet) ==
    IF s = <<>> THEN 0
    ELSE ValueIn(SubSeq(s, 1, Len(s) - 1), alphabet) * Len(alphabet)
         + (IndexOf(s[Len(s)], alphabet) - 1)

RECURSIVE Trim(_)
Trim(s) ==
    IF s = <<>> THEN s
    ELSE IF Head(s) = " " THEN Trim(Tail(s))
    ELSE IF s[Len(s)] = " " THEN Trim(SubSeq(s, 1, Len(s) - 1))
    ELSE s

\* The value NaN of a JavaScript number.
NaN == 0 - 1

\* Number(text) for the numerals the model draws: optional surrounding
\* blanks, then nothing (0), decimal digits, or 0x and hexadecimal digits;
\* anything else is NaN.
Number(text) ==
    LET t == Trim(text) IN
    IF t = <<>> THEN 0
    ELSE IF IsAllOf(t, Digits) THEN ValueIn(t, Digits)
    ELSE IF Len(t) > 2 /\ t[1] = "0" /\ t[2] = "x"
            /\ IsAllOf(SubSeq(t, 3, Len(t)), HexDigits)
         THEN ValueIn(SubSeq(t, 3, Len(t)), HexDigits)
    ELSE NaN

RECURSIVE ToString(_)
\* n.toString() of a natural number: its decimal digits.
ToString(n) ==
    IF n < 10 THEN <<Digits[n + 1]>>
    ELSE ToString(n \div 10) \o <<Digits[(n % 10) + 1]>>

RECURSIVE DigitPrefix(_)
DigitPrefix(s) ==
    IF s = <<>> \/ IndexOf(Head(s), Digits) = 0 THEN <<>>
    ELSE <<Head(s)>> \o DigitPrefix(Tail(s))

\* parseInt(text, 10) of an unsigned text: the value of its leading digits.
ParseInt10(text) ==
    LET p == DigitPrefix(Trim(text)) IN
    IF p = <<>> THEN NaN ELSE ValueIn(p, Digits)

\* -------------------------------------------------------------- values

JsUndefined == [type |-> "undefined"]

JsString(s) == [type |-> "string", val |-> s]

\* !v of JavaScript for undefined and strings.
Falsy(v) == v.type = "undefined" \/ v.val = <<>>

\* ------------------------------------------------------ pools and tags

\* Pool: id, createdAtTimestamp and the two tokens' name and symbol.
Pool(id, ts, tokens) ==
    [id |-> id, createdAtTimestamp |-> ts,
     token0 |-> tokens.token0, token1 |-> tokens.token1]

PoolId(i) == <<"0", "x", HexDigits[i + 1]>>

\* /<[^>]+>/.test(text): a "<", then one or more characters other than
\* ">", then a ">".
containsHtmlOrMarkdown(text) ==
    \E i \in 1..Len(text) : \E j \in 1..Len(text) :
        /\ i + 1 < j
        /\ text[i] = "<"
        /\ text[j] = ">"
        /\ \A k \in (i + 1)..(j - 1) : text[k] # ">"

token0Invalid(pool) ==
    containsHtmlOrMarkdown(pool.token0.name)
    \/ containsHtmlOrMarkdown(pool.token0.symbol)

\* token1Invalid without the test of the symbol.
token1InvalidNameOnly(pool) == containsHtmlOrMarkdown(pool.token1.name)

token1Invalid(pool) ==
    containsHtmlOrMarkdown(pool.token1.name)
    \/ containsHtmlOrMarkdown(pool.token1.symbol)

RECURSIVE validPools(_)
\* The forEach of transformPoolsToTags: the pools pushed to validPools.
validPools(pools) ==
    IF pools = <<>> THEN <<>>
    ELSE IF token0Invalid(Head(pools)) \/ token1Invalid(Head(pools))
         THEN validPools(Tail(pools))
         ELSE <<Head(pools)>> \o validPools(Tail(pools))

\* `eip155:${chainId}:${pool.id}`
ContractAddress(chain, id) ==
    <<"e", "i", "p", "1", "5", "5", ":">> \o chain \o <<":">> \o id

transformPoolsToTags(chain, pools) ==
    LET valid == validPools(pools) IN
    [i \in 1..Len(valid) |->
        [ContractAddress |-> ContractAddress(chain, valid[i].id)]]

\* filterSeen without seenAddr.add.
filterNoAdd(tags, seen) ==
    [kept |-> SelectSeq(tags, LAMBDA t : t.ContractAddress \notin seen),
     seen |-> seen]

RECURSIVE filterSeen(_, _)
\* The filter of returnTags over the tags of one page: a tag is kept when
\* its address is not in the set, and its address is then added to it.
filterSeen(tags, seen) ==
    IF tags = <<>> THEN [kept |-> <<>>, seen |-> seen]
    ELSE IF Head(tags).ContractAddress \in seen
         THEN filterSeen(Tail(tags), seen)
         ELSE LET rest == filterSeen(Tail(tags),
                                     seen \cup {Head(tags).ContractAddress})
              IN [kept |-> <<Head(tags)>> \o rest.kept, seen |-> rest.seen]

\* moreAfter counting the pools that passed the Validator.
moreAfterValid(pools) == Len(validPools(pools)) = PAGE

\* isMore = pools.length === 1000
moreAfter(pools) == Len(pools) = PAGE

\* nextTimestamp reading the first pool of the page.
firstTimestamp(pools) == ParseInt10(ToString(pools[1].createdAtTimestamp))

\* parseInt(pools[pools.length - 1].createdAtTimestamp.toString(), 10)
nextTimestamp(pools) ==
    ParseInt10(ToString(pools[Len(pools)].createdAtTimestamp))

\* configError without the check of the key.
configErrorChainOnly(chain, key) == Number(chain) # 8453

\* The two checks at the entry of returnTags.
configError(chain, key) == Number(chain) # 8453 \/ Falsy(key)

\* ----------------------------------------------------- remote source

\* A response as fetchPools reads it: whether fetch() rejected, resp.ok,
\* whether resp.json() parses, whether the envelope has errors, data and
\* data.pools, and the pools.
Response(rejected, ok, parses, errors, data, pools, list) ==
    [rejected |-> rejected, ok |-> ok, parses |-> parses, errors |-> errors,
     data |-> data, pools |-> pools, list |-> list]

NoResponse == Response(FALSE, FALSE, FALSE, FALSE, FALSE, FALSE, <<>>)

OkResponse(list) == Response(FALSE, TRUE, TRUE, FALSE, TRUE, TRUE, list)

\* fetchPools after its awaits: throws, or returns json.data.pools.
fetchPools(resp) ==
    IF resp.rejected THEN [throws |-> TRUE, pools |-> <<>>]
    ELSE IF ~resp.ok THEN [throws |-> TRUE, pools |-> <<>>]
    ELSE IF ~resp.parses THEN [throws |-> TRUE, pools |-> <<>>]
    ELSE IF resp.errors THEN [throws |-> TRUE, pools |-> <<>>]
    ELSE IF ~resp.data \/ ~resp.pools THEN [throws |-> TRUE, pools |-> <<>>]
    ELSE [throws |-> FALSE, pools |-> resp.list]

\* poolsQuery with createdAtTimestamp_gte.
poolsQueryGte(held, after) ==
    LET match == SelectSeq(held, LAMBDA p : p.createdAtTimestamp >= after)
    IN SubSeq(match, 1, IF Len(match) < PAGE THEN Len(match) ELSE PAGE)

\* poolsQuery without the where clause.
poolsQueryNoWhere(held, after) ==
    SubSeq(held, 1, IF Len(held) < PAGE THEN Len(held) ELSE PAGE)

\* The pools query: first PAGE pools, ascending by createdAtTimestamp, of
\* those with createdAtTimestamp_gt lastTimestamp.  held is in that order.
poolsQuery(held, after) ==
    LET match == SelectSeq(held, LAMBDA p : p.createdAtTimestamp > after)
    IN SubSeq(match, 1, IF Len(match) < PAGE THEN Len(match) ELSE PAGE)

\* The request of fetchPools number n, outstanding until resumed.
Request(n, after) ==
    [n |-> n, lastTimestamp |-> after, answered |-> FALSE, resp |-> NoResponse]

\* issue that also sends the request of the page after.
issueAhead(requests, n, after) ==
    requests \cup {Request(n, after), Request(n + 1, after)}

\* fetch(endpoint, body with variables { lastTimestamp }): one request.
issue(requests, n, after) == requests \cup {Request(n, after)}

\* ---------------------------------------------------------------- state

VARIABLES
    chainId,        \* argument of returnTags, a string
    apiKey,         \* argument of returnTags, a string or undefined
    store,          \* pools the remote source holds, in query order
    pc,             \* "init", "awaiting", "done" (returned), "failed" (threw)
    lastTimestamp,  \* local of returnTags
    allTags,        \* local of returnTags
    isMore,         \* local of returnTags
    counter,        \* local of returnTags
    seenAddr,       \* local of returnTags
    net,            \* requests issued and not yet resumed from
    result,         \* what the caller receives
    fetches,        \* requests issued by this run
    lens,           \* raw length of every page received, in order
    last            \* how many tags the page received last gave, and how many were kept

vars == <<chainId, apiKey, store, pc, lastTimestamp, allTags, isMore, counter,
          seenAddr, net, result, fetches, lens, last>>

locals == <<lastTimestamp, allTags, isMore, counter, seenAddr>>

NoResult == [returned |-> FALSE, tags |-> <<>>]

Returned(tags) == [returned |-> TRUE, tags |-> tags]

\* ---------------------------------------------------------------- inputs

ChainIds ==
    { <<"8", "4", "5", "3">>, <<"0", "x", "2", "1", "0", "5">>,
      <<" ", "8", "4", "5", "3">>, <<"8", "4", "5", "3", "0">>, <<"1">>,
      <<>>, <<"0", "x">>, <<"b", "a", "s", "e">> }

ApiKeys == { JsUndefined, JsString(<<>>), JsString(<<"k", "e", "y">>) }

\* Token texts: one matches the tag-like pattern, the others hold "<" and
\* ">" without matching it.
Tagged == <<"<", "b", ">">>

Token(name, symbol) == [name |-> name, symbol |-> symbol]

GoodTokens ==
    [token0 |-> Token(<<"<", ">">>, <<"A", "<", "B">>),
     token1 |-> Token(<<">", "x", "<">>, <<"U", "S", "D">>)]

Bad0Name == [GoodTokens EXCEPT !.token0.name = Tagged]

Bad0Symbol == [GoodTokens EXCEPT !.token0.symbol = <<"x">> \o Tagged]

Bad1Name == [GoodTokens EXCEPT !.token1.name = Tagged \o <<"y">>]

Bad1Symbol == [GoodTokens EXCEPT !.token1.symbol = <<"<">> \o Tagged]

\* Pools an arbitrary remote source may put in a page.
Universe ==
    { Pool(PoolId(1), 1, GoodTokens), Pool(PoolId(1), 2, GoodTokens),
      Pool(PoolId(2), 1, GoodTokens), Pool(PoolId(3), 2, GoodTokens) }
    \cup { Pool(PoolId(1), 1, Bad0Name), Pool(PoolId(2), 2, Bad0Symbol),
           Pool(PoolId(3), 1, Bad1Name), Pool(PoolId(1), 2, Bad1Symbol) }

\* Pages of at most PAGE pools (the query asks for the first PAGE).
Pages == UNION { [1..n -> Universe] : n \in 0..PAGE }

\* Responses on which fetchPools throws.
Failures ==
    { Response(TRUE, FALSE, FALSE, FALSE, FALSE, FALSE, <<>>),
      Response(FALSE, FALSE, TRUE, FALSE, TRUE, TRUE, <<>>),
      Response(FALSE, TRUE, FALSE, FALSE, FALSE, FALSE, <<>>),
      Response(FALSE, TRUE, TRUE, TRUE, TRUE, TRUE, <<>>),
      Response(FALSE, TRUE, TRUE, TRUE, FALSE, FALSE, <<>>),
      Response(FALSE, TRUE, TRUE, FALSE, FALSE, FALSE, <<>>),
      Response(FALSE, TRUE, TRUE, FALSE, TRUE, FALSE, <<>>) }

\* Stores of an honest remote source: distinct ids, ascending timestamps,
\* at most one pool (the one at index bad) that the Validator rejects.
Stores ==
    UNION { { [i \in 1..n |->
                  Pool(PoolId(i), ts[i],
                       IF i = bad THEN Bad1Symbol ELSE GoodTokens)] :
                ts \in { f \in [1..n -> 1..MaxTs] :
                           \A i \in 1..n : \A j \in i..n : f[i] <= f[j] },
                bad \in 0..n } :
            n \in 0..MaxStore }

\* ---------------------------------------------------------------- Init

InitRun ==
    /\ chainId \in ChainIds
    /\ apiKey \in ApiKeys
    /\ pc = "init"
    /\ lastTimestamp = 0
    /\ allTags = <<>>
    /\ isMore = TRUE
    /\ counter = 0
    /\ seenAddr = {}
    /\ net = {}
    /\ result = NoResult
    /\ fetches = 0
    /\ lens = <<>>
    /\ last = [mapped |-> 0, kept |-> 0]

Init == InitRun /\ store = <<>>

InitHonest ==
    /\ InitRun
    /\ chainId \in { <<"8", "4", "5", "3">>, <<"1">> }
    /\ apiKey = JsString(<<"k", "e", "y">>)
    /\ store \in Stores

\* -------------------------------------------------------------- actions

\* returnTags from its entry to the first await.
Call ==
    /\ pc = "init"
    /\ IF configError(chainId, apiKey)
       THEN /\ pc' = "failed"
            /\ UNCHANGED <<locals, net, fetches>>
       ELSE /\ pc' = "awaiting"
            /\ lastTimestamp' = 0
            /\ allTags' = <<>>
            /\ isMore' = TRUE
            /\ counter' = 0
            /\ seenAddr' = {}
            /\ net' = issue(net, 1, 0)
            /\ fetches' = 1
    /\ UNCHANGED <<chainId, apiKey, store, result, lens, last>>

\* The remote source answers request r with resp.
Answer(r, resp) ==
    /\ net' = (net \ {r}) \cup {[r EXCEPT !.answered = TRUE, !.resp = resp]}
    /\ UNCHANGED <<chainId, apiKey, store, pc, locals, result, fetches, lens,
                   last>>

\* Any remote source: any page of at most PAGE pools.
RespondPage ==
    \E r \in net : \E page \in Pages :
        /\ ~r.answered
        /\ Len(page) < PAGE \/ counter < MaxFullPages
        /\ Answer(r, OkResponse(page))

\* The honest remote source: the answer of the query over its store.
RespondStore ==
    \E r \in net :
        /\ ~r.answered
        /\ counter < MaxStore
        /\ Answer(r, OkResponse(poolsQuery(store, r.lastTimestamp)))

\* A failed request.
RespondFailure ==
    \E r \in net : \E resp \in Failures :
        /\ ~r.answered
        /\ Answer(r, resp)

\* catch that returns what was accumulated.
catchReturnsPartial(r) ==
    /\ pc' = "done"
    /\ result' = [returned |-> TRUE, tags |-> allTags]
    /\ net' = net \ {r}
    /\ UNCHANGED <<locals, fetches, lens, last>>

\* The catch block of returnTags: the run throws.
catch(r) ==
    /\ pc' = "failed"
    /\ net' = net \ {r}
    /\ UNCHANGED <<locals, result, fetches, lens, last>>

\* The body of the loop after the await, the loop test, and either the
\* next fetch or the return.
iterate(r, pools) ==
    LET tags == transformPoolsToTags(chainId, pools)
        f == filterSeen(tags, seenAddr)
        more == moreAfter(pools)
        after == IF more THEN nextTimestamp(pools) ELSE lastTimestamp
    IN /\ allTags' = allTags \o f.kept
       /\ seenAddr' = f.seen
       /\ counter' = counter + 1
       /\ isMore' = more
       /\ lastTimestamp' = after
       /\ lens' = Append(lens, Len(pools))
       /\ last' = [mapped |-> Len(tags), kept |-> Len(f.kept)]
       /\ IF more
          THEN /\ net' = issue(net \ {r}, fetches + 1, after)
               /\ fetches' = fetches + 1
               /\ pc' = "awaiting"
               /\ UNCHANGED result
          ELSE /\ net' = net \ {r}
               /\ UNCHANGED fetches
               /\ pc' = "done"
               /\ result' = Returned(allTags')

\* returnTags resumes from the await of fetchPools.
Resume ==
    /\ pc = "awaiting"
    /\ \E r \in net :
        /\ r.answered
        /\ r.n = fetches
        /\ LET got == fetchPools(r.resp) IN
           IF got.throws THEN catch(r) ELSE iterate(r, got.pools)
    /\ UNCHANGED <<chainId, apiKey, store>>

Next == Call \/ RespondPage \/ RespondFailure \/ Resume

Spec == Init /\ [][Next]_vars

NextHonest == Call \/ RespondStore \/ RespondFailure \/ Resume

SpecHonest == InitHonest /\ [][NextHonest]_vars

\* The remote source answers every request, and the run takes its steps.
SpecHonestFair ==
    /\ InitHonest
    /\ [][NextHonest]_vars
    /\ WF_vars(Call)
    /\ WF_vars(RespondStore)
    /\ WF_vars(Resume)

\* ---------------------------------------------------- properties: terms

\* Addresses of a list of tags.
AddressesOf(tags) == { tags[i].ContractAddress : i \in 1..Len(tags) }

PairwiseDistinct(tags) ==
    \A i \in 1..Len(tags) : \A j \in 1..Len(tags) :
        i # j => tags[i].ContractAddress # tags[j].ContractAddress

\* One of the four token texts of the pool matches the tag-like pattern.
Rejected(pool) ==
    \E text \in { pool.token0.name, pool.token0.symbol,
                  pool.token1.name, pool.token1.symbol } :
        containsHtmlOrMarkdown(text)

\* A response that is a failed fetch.
Fails(resp) ==
    resp.rejected \/ ~resp.ok \/ ~resp.parses \/ resp.errors
    \/ ~resp.data \/ ~resp.pools

\* The chain identifier is not the supported one, or the key is absent or
\* empty.
BadConfig ==
    Number(chainId) # 8453 \/ apiKey = JsUndefined \/ apiKey = JsString(<<>>)

\* Indices of the pools of page that give a tag kept after prior: not
\* rejected, address not in prior, and no earlier such pool of the page
\* with the same id.
KeptIndices(page, prior) ==
    { i \in 1..Len(page) :
        /\ ~Rejected(page[i])
        /\ ContractAddress(chainId, page[i].id) \notin prior
        /\ \A j \in 1..(i - 1) :
              Rejected(page[j]) \/ page[j].id # page[i].id }

RECURSIVE TagsAt(_, _, _)
\* The tags of the pools of page at the indices in idx, from i on, in order.
TagsAt(page, idx, i) ==
    IF i > Len(page) THEN <<>>
    ELSE (IF i \in idx
          THEN <<[ContractAddress |-> ContractAddress(chainId, page[i].id)]>>
          ELSE <<>>) \o TagsAt(page, idx, i + 1)

\* The answered request the run waits for holds a successful page.
PageArrived(r) == r \in net /\ r.answered /\ ~Fails(r.resp)

\* ------------------------------------------------------------------ C1

\* C1: in every state of a run, and in the list it returns, no two
\* accumulated tags have the same contract address, whatever pages the
\* remote source served.
C1_UniqueAddresses ==
    /\ PairwiseDistinct(allTags)
    /\ PairwiseDistinct(result.tags)
    /\ AddressesOf(allTags) = seenAddr

\* A run returned at least two tags after a second page out of which a
\* tag was dropped as a duplicate.
C1_Witness ==
    /\ pc = "done"
    /\ result.returned
    /\ Len(result.tags) >= 2
    /\ counter >= 2
    /\ last.kept < last.mapped

\* ------------------------------------------------------------------ C2

\* C2: when the run returns against an honest remote source, every pool
\* the source holds that passes the Validator has its tag in the returned
\* list.
C2_FullList ==
    pc = "done" =>
        \A i \in 1..Len(store) :
            ~Rejected(store[i]) =>
                ContractAddress(chainId, store[i].id)
                    \in AddressesOf(result.tags)

\* ------------------------------------------------------------------ C3

\* C3: when the answer to a fetch is a failure, on any page, the run's
\* next step ends it as failed, with nothing returned and no further
\* request issued; a failed run takes no further step.
C3_FailureAborts ==
    [][ /\ (\E r \in net : r.answered /\ Fails(r.resp)) =>
              /\ pc' = "failed"
              /\ result' = NoResult
              /\ fetches' = fetches
              /\ net' = {}
        /\ pc = "failed" =>
              /\ pc' = "failed"
              /\ result' = NoResult
              /\ fetches' = fetches
              /\ net' = net ]_vars

\* A run failed on its second page, with tags accumulated from the first
\* and nothing returned.
C3_Witness ==
    /\ pc = "failed"
    /\ counter = 1
    /\ fetches = 2
    /\ Len(allTags) >= 1
    /\ ~result.returned
    /\ net = {}

\* ------------------------------------------------------------------ C4

\* C4: with an unsupported chain identifier, or an absent or empty key,
\* the run issues no request: it is not yet started or it has failed.
C4_ConfigFailsBeforeFetch ==
    BadConfig =>
        /\ fetches = 0
        /\ net = {}
        /\ pc \in {"init", "failed"}
        /\ ~result.returned

\* A run with the supported chain in hexadecimal and an empty key failed
\* without a request.
C4_Witness ==
    /\ pc = "failed"
    /\ Number(chainId) = 8453
    /\ chainId # <<"8", "4", "5", "3">>
    /\ apiKey = JsString(<<>>)
    /\ fetches = 0

\* ------------------------------------------------------------------ C5

\* C5: after a successful page the run issues another request exactly when
\* the page held PAGE raw pools; otherwise it returns the accumulated
\* list.
C5_ContinueIffFullPage ==
    [][ \A r \in net : PageArrived(r) =>
            /\ (Len(r.resp.list) = PAGE) <=>
                  /\ fetches' = fetches + 1
                  /\ pc' = "awaiting"
                  /\ \E q \in net' : ~q.answered /\ q.n = fetches'
            /\ (Len(r.resp.list) # PAGE) =>
                  /\ fetches' = fetches
                  /\ net' = {}
                  /\ pc' = "done"
                  /\ result' = Returned(allTags') ]_vars

\* A first page of PAGE raw pools gave fewer than PAGE tags, a second
\* request was issued all the same, and the empty second page ended the
\* run.
C5_Witness ==
    /\ pc = "done"
    /\ lens = <<PAGE, 0>>
    /\ fetches = 2
    /\ Len(result.tags) < PAGE

\* ------------------------------------------------------------------ C6

\* C6: the first request carries cursor 0; the request after a full page
\* carries the createdAtTimestamp of the last raw pool of that page; each
\* page appends the tags kept from it; and the run returns the
\* accumulated list after as many requests as pages, so PAGE pools then
\* fewer make two requests.
C6_CursorAndOrder ==
    [][ /\ (pc = "init" /\ pc' = "awaiting") =>
              \A q \in net' : q.n = 1 /\ q.lastTimestamp = 0
        /\ \A r \in net : PageArrived(r) =>
              LET page == r.resp.list IN
              /\ allTags' =
                    allTags \o
                    TagsAt(page, KeptIndices(page, AddressesOf(allTags)), 1)
              /\ pc' = "awaiting" =>
                    \A q \in net' :
                        /\ q.n = r.n + 1
                        /\ q.lastTimestamp =
                              page[Len(page)].createdAtTimestamp
              /\ pc' = "done" =>
                    /\ result' = Returned(allTags')
                    /\ fetches' = Len(lens')
                    /\ (Len(lens') = 2 => lens'[1] = PAGE) ]_vars

\* A run of a full page then one pool made two requests, moved the cursor
\* to 2 and returned two tags, one from each page, one raw pool being
\* dropped.
C6_Witness ==
    /\ pc = "done"
    /\ lens = <<PAGE, 1>>
    /\ fetches = 2
    /\ lastTimestamp = 2
    /\ Len(result.tags) = 2
    /\ last.kept = 1

\* ------------------------------------------------------------------ C7

\* C7: of a successful page, exactly the pools with none of the four token
\* texts matching the pattern give a tag, one each; rejected pools add no
\* address to the output, do not fail the run and do not change whether
\* it goes on.
C7_RejectedDropped ==
    [][ \A r \in net : PageArrived(r) =>
            LET page == r.resp.list
                ok == { i \in 1..Len(page) : ~Rejected(page[i]) }
            IN /\ last'.mapped = Cardinality(ok)
               /\ AddressesOf(allTags') =
                     AddressesOf(allTags)
                     \cup { ContractAddress(chainId, page[i].id) : i \in ok }
               /\ pc' # "failed"
               /\ (pc' = "awaiting") <=> (Len(page) = PAGE) ]_vars

\* A first full page with one rejected pool gave one tag fewer and the
\* run went on.
C7_Witness ==
    /\ pc = "awaiting"
    /\ counter = 1
    /\ lens = <<PAGE>>
    /\ last.mapped = PAGE - 1
    /\ last.kept = PAGE - 1

\* ------------------------------------------------------------------ C8

\* C8: at most one request is outstanding; it is the latest one issued,
\* every page before it has been processed, and it carries the cursor as
\* updated from the page before.
C8_OneInFlight ==
    /\ Cardinality(net) <= 1
    /\ \A r \in net :
          /\ r.n = fetches
          /\ r.n = counter + 1
          /\ r.lastTimestamp = lastTimestamp
    /\ pc \in {"init", "done", "failed"} => net = {}

\* The second request is outstanding after the first page was processed.
C8_Witness ==
    /\ pc = "awaiting"
    /\ counter = 1
    /\ \E r \in net : ~r.answered /\ r.n = 2

\* ------------------------------------------------------------------ C9

\* C9: against an honest remote source the cursor never decreases, and
\* every request after the first carries a cursor strictly greater than
\* the request before it.
C9_CursorIncreases ==
    [][ /\ lastTimestamp' >= lastTimestamp
        /\ \A r \in net : \A q \in net' :
              q.n = r.n + 1 => q.lastTimestamp > r.lastTimestamp ]_vars

\* A third request is outstanding, its cursor above the first page's.
C9_Witness ==
    /\ pc = "awaiting"
    /\ fetches = 3
    /\ lastTimestamp >= 2
    /\ \E r \in net : r.n = 3 /\ r.lastTimestamp = lastTimestamp

\* ----------------------------------------------------------------- C10

\* C10: against an honest remote source that answers every request, a run
\* eventually ends, returning or failing.
C10_Terminates == <>(pc \in {"done", "failed"})

\* A run over a store of exactly two full pages of pools sharing
\* timestamps ended after an empty third page.
C10_Witness ==
    /\ pc = "done"
    /\ Len(store) = 2 * PAGE
    /\ lens = <<PAGE, PAGE, 0>>
    /\ fetches = 3

\* The honest remote source is never kept from answering by the bound on
\* its store.
AnswerNotBounded == pc = "awaiting" => counter < MaxStore

=============================================================================
